---- MODULE Spec2Model ----
(***************************************************************************)
(* Model of the planatrip proxy: the serverless handler that forwards a    *)
(* typed travel request to the generative-AI upstream (the superset        *)
(* variant of the dispatcher, with generateImage and foodSuggestion).      *)
(*                                                                         *)
(* JavaScript values are tagged records, so that values of different JS    *)
(* types can be compared:                                                  *)
(*   undefined            [k |-> "undefined"]                              *)
(*   a string             [k |-> "string", s |-> "..."]                    *)
(*   a string of JSON     [k |-> "string", toks |-> <<lexemes>>]           *)
(*   a number             [k |-> "number", n |-> 3]                        *)
(*   an array             [k |-> "array",  a |-> <<values>>]               *)
(*   an object            [k |-> "object", m |-> <<[key, val], ...>>]      *)
(* An object keeps its members in insertion order, as JS does.             *)
(***************************************************************************)
EXTENDS Integers, Sequences, FiniteSets, TLC

VARIABLES pc, req, env, type, call, calls, response, sent, log, thrown

vars == <<pc, req, env, type, call, calls, response, sent, log, thrown>>

\* the service worker: its lifecycle state, the caches of the origin, the
\* cache.put calls not yet settled, and the outcome of the last fetch event
VARIABLES swState, caches, pendingPuts, delivered

swvars == <<swState, caches, pendingPuts, delivered>>

(***************************************************************************)
(* JavaScript values                                                       *)
(***************************************************************************)
Undefined == [k |-> "undefined"]

JNull == [k |-> "null"]

JStr(s) == [k |-> "string", s |-> s]

JText(toks) == [k |-> "string", toks |-> toks]

JNum(n) == [k |-> "number", n |-> n]

JBool(b) == [k |-> "boolean", b |-> b]

JArr(a) == [k |-> "array", a |-> a]

JObj(m) == [k |-> "object", m |-> m]

KV(key, val) == [key |-> key, val |-> val]

\* v is null or undefined: reading a property of v throws a TypeError
IsNullish(v) == v.k \in {"undefined", "null"}

\* o.key for a value o that is not nullish
Prop(o, key) ==
    IF o.k = "object" /\ \E i \in DOMAIN o.m : o.m[i].key = key
    THEN o.m[CHOOSE i \in DOMAIN o.m : o.m[i].key = key].val
    ELSE Undefined

\* a[i] (0-based) for a value a that is not nullish
Index(a, i) ==
    IF a.k = "array" /\ (i + 1) \in DOMAIN a.a THEN a.a[i + 1] ELSE Undefined

\* a.length for a value a that is not nullish
Length(a) ==
    IF a.k = "array" THEN JNum(Len(a.a)) ELSE Undefined

\* ToBoolean(v)
Truthy(v) ==
    CASE v.k \in {"undefined", "null"} -> FALSE
      [] v.k = "boolean" -> v.b
      [] v.k = "number" -> v.n # 0
      [] v.k = "string" -> IF "s" \in DOMAIN v THEN v.s # "" ELSE v.toks # <<>>
      [] OTHER -> TRUE

\* `${v}` inside a template literal, for the values the requests carry
Interp(v) ==
    CASE v.k = "undefined" -> "undefined"
      [] v.k = "null" -> "null"
      [] v.k = "number" -> ToString(v.n)
      [] v.k = "string" /\ "s" \in DOMAIN v -> v.s
      [] OTHER -> "[object Object]"

\* the rest pattern of `const { type, ...body } = o`: o without the key
RECURSIVE Without(_, _)
Without(m, key) ==
    IF m = <<>> THEN <<>>
    ELSE IF Head(m).key = key THEN Without(Tail(m), key)
    ELSE <<Head(m)>> \o Without(Tail(m), key)

(***************************************************************************)
(* JSON.parse, over the lexemes of the text.  A lexeme is one of the       *)
(* punctuators { } [ ] : , a string, a number, a literal, or a bare word   *)
(* that is no JSON token at all.                                           *)
(***************************************************************************)
P(c) == [t |-> c]

TStr(s) == [t |-> "str", s |-> s]

TNum(n) == [t |-> "num", n |-> n]

TWord(w) == [t |-> "word", w |-> w]

ParseFail == [ok |-> FALSE]

ParseOk(val, next) == [ok |-> TRUE, val |-> val, next |-> next]

\* o[key] = val: a repeated key keeps its place and takes the later value
SetMember(m, key, val) ==
    IF \E i \in DOMAIN m : m[i].key = key
    THEN [i \in DOMAIN m |-> IF m[i].key = key THEN KV(key, val) ELSE m[i]]
    ELSE Append(m, KV(key, val))

RECURSIVE ParseValue(_, _)
RECURSIVE ParseElements(_, _, _)
RECURSIVE ParseMembers(_, _, _)

\* elements of an array, toks[i] being the first lexeme of an element
ParseElements(toks, i, acc) ==
    LET e == ParseValue(toks, i) IN
    IF ~e.ok THEN ParseFail
    ELSE IF e.next > Len(toks) THEN ParseFail
    ELSE IF toks[e.next].t = "]"
         THEN ParseOk(JArr(Append(acc, e.val)), e.next + 1)
    ELSE IF toks[e.next].t = ","
         THEN ParseElements(toks, e.next + 1, Append(acc, e.val))
    ELSE ParseFail

\* members of an object, toks[i] being the lexeme of a key
ParseMembers(toks, i, acc) ==
    IF i + 1 > Len(toks) THEN ParseFail
    ELSE IF toks[i].t # "str" \/ toks[i + 1].t # ":" THEN ParseFail
    ELSE LET e == ParseValue(toks, i + 2) IN
         IF ~e.ok THEN ParseFail
         ELSE IF e.next > Len(toks) THEN ParseFail
         ELSE IF toks[e.next].t = "}"
              THEN ParseOk(JObj(SetMember(acc, toks[i].s, e.val)), e.next + 1)
         ELSE IF toks[e.next].t = ","
              THEN ParseMembers(toks, e.next + 1, SetMember(acc, toks[i].s, e.val))
         ELSE ParseFail

ParseValue(toks, i) ==
    IF i > Len(toks) THEN ParseFail
    ELSE CASE toks[i].t = "str" -> ParseOk(JStr(toks[i].s), i + 1)
           [] toks[i].t = "num" -> ParseOk(JNum(toks[i].n), i + 1)
           [] toks[i].t = "null" -> ParseOk(JNull, i + 1)
           [] toks[i].t = "true" -> ParseOk(JBool(TRUE), i + 1)
           [] toks[i].t = "false" -> ParseOk(JBool(FALSE), i + 1)
           [] toks[i].t = "[" ->
                IF i + 1 <= Len(toks) /\ toks[i + 1].t = "]"
                THEN ParseOk(JArr(<<>>), i + 2)
                ELSE ParseElements(toks, i + 1, <<>>)
           [] toks[i].t = "{" ->
                IF i + 1 <= Len(toks) /\ toks[i + 1].t = "}"
                THEN ParseOk(JObj(<<>>), i + 2)
                ELSE ParseMembers(toks, i + 1, <<>>)
           [] OTHER -> ParseFail

\* JSON.parse(text): the value, or a SyntaxError.  A text that is not a
\* string is first converted to one ("undefined" is no JSON text).
JSONparse(text) ==
    IF text.k = "string" /\ "toks" \in DOMAIN text
    THEN LET r == ParseValue(text.toks, 1) IN
         IF r.ok /\ r.next = Len(text.toks) + 1
         THEN [ok |-> TRUE, val |-> r.val]
         ELSE [ok |-> FALSE]
    ELSE IF text.k \in {"number", "boolean", "null"}
    THEN [ok |-> TRUE, val |-> text]
    ELSE [ok |-> FALSE]

(***************************************************************************)
(* The payload built for each request kind (the switch on `type`)          *)
(***************************************************************************)
GeminiModel == "gemini-2.5-flash-preview-09-2025"

ImagenModel == "imagen-4.0-generate-001"

\* a plausible slip: the one fixed generateContent URL for every kind
ApiUrlFixedAction(model, action, key) ==
    [base |-> "https://generativelanguage.googleapis.com/v1beta/models/",
     model |-> model, action |-> "generateContent", key |-> key]

\* `https://generativelanguage.googleapis.com/v1beta/models/${model}:${action}?key=${API_KEY}`
ApiUrl(model, action, key) ==
    [base |-> "https://generativelanguage.googleapis.com/v1beta/models/",
     model |-> model, action |-> action, key |-> key]

\* { contents: [{ parts: [{ text: prompt }] }] }
Contents(prompt) ==
    KV("contents", JArr(<<JObj(<<KV("parts", JArr(<<JObj(<<KV("text", JStr(prompt))>>)>>))>>)>>))

\* tools: [{ "google_search": {} }]
SearchTools == KV("tools", JArr(<<JObj(<<KV("google_search", JObj(<<>>))>>)>>))

SType(t) == KV("type", JStr(t))

SProps(names, t) == [i \in DOMAIN names |-> KV(names[i], JObj(<<SType(t)>>))]

SRequired(names) == KV("required", JArr([i \in DOMAIN names |-> JStr(names[i])]))

ActivitySchema ==
    JObj(<<SType("OBJECT"),
           KV("properties", JObj(
               SProps(<<"name", "type", "crowdLevel">>, "STRING")
               \o SProps(<<"approxCostUSD">>, "NUMBER")
               \o SProps(<<"details", "address">>, "STRING"))),
           SRequired(<<"name", "type", "details", "approxCostUSD", "crowdLevel", "address">>)>>)

DaySchema ==
    JObj(<<SType("OBJECT"),
           KV("properties", JObj(
               SProps(<<"day">>, "NUMBER")
               \o SProps(<<"theme", "city", "transportation_tip", "foodSuggestion">>, "STRING")
               \o <<KV("activities", JObj(<<SType("ARRAY"), KV("items", ActivitySchema)>>))>>)),
           SRequired(<<"day", "theme", "city", "activities", "transportation_tip", "foodSuggestion">>)>>)

ResponseSchema ==
    JObj(<<SType("OBJECT"),
           KV("properties", JObj(
               SProps(<<"title">>, "STRING") \o SProps(<<"numberOfPeople">>, "NUMBER")
               \o SProps(<<"budgetTier">>, "STRING") \o SProps(<<"costPerHeadUSD">>, "NUMBER")
               \o SProps(<<"summary", "bestSeasonToVisit">>, "STRING")
               \o <<KV("days", JObj(<<SType("ARRAY"), KV("items", DaySchema)>>))>>)),
           SRequired(<<"title", "numberOfPeople", "budgetTier", "costPerHeadUSD",
                       "summary", "bestSeasonToVisit", "days">>)>>)

\* temperature 0.1, kept in tenths
GenerationConfig ==
    KV("generationConfig", JObj(<<KV("temperature", [k |-> "number", tenths |-> 1]),
                                  KV("responseMimeType", JStr("application/json")),
                                  KV("responseSchema", ResponseSchema)>>))

\* v || fallback inside a template literal
OrElse(v, fallback) == IF Truthy(v) THEN Interp(v) ELSE fallback

TypeErrorReading(of, key) ==
    [name |-> "TypeError",
     message |-> "Cannot read properties of " \o of \o " (reading '" \o key \o "')"]

ItineraryPrompt(data) ==
    "You are an AI travel assistant. Your task is to generate a travel itinerary based on the user's request. "
    \o "User Request: - Destination: " \o Interp(Prop(data, "cities")) \o ", " \o Interp(Prop(data, "country"))
    \o " - Staying At (Starting Point): " \o OrElse(Prop(data, "staying-at"), "Central location")
    \o " - Duration: " \o Interp(Prop(data, "duration")) \o " days"
    \o " - Travelers: " \o Interp(Prop(data, "num-people"))
    \o " - Budget: " \o Interp(Prop(data, "budget"))
    \o " - Pace: " \o Interp(Prop(data, "trip-pace"))
    \o " - Accommodation: " \o Interp(Prop(data, "accommodation-type"))
    \o " - Interests: " \o OrElse(Prop(data, "interests"), "N/A")
    \o " JSON Schema Instructions: budgetTier: Use the user's requested budget (e.g., "
    \o Interp(Prop(data, "budget")) \o "). numberOfPeople: Use the user's requested number (e.g., "
    \o Interp(Prop(data, "num-people")) \o "). "
    \o "IMPORTANT: Your entire response must be ONLY the JSON object, starting with { and ending with }."

QaPrompt(context, question) ==
    "Regarding the travel activity or location " \o Interp(context)
    \o ", please provide a concise and helpful answer to the following user question: "
    \o Interp(question)

FlightPrompt(flightData) ==
    "Find the cheapest flight options from " \o Interp(Prop(flightData, "flight-origin"))
    \o " to " \o Interp(Prop(flightData, "flight-destination"))
    \o ", departing on " \o Interp(Prop(flightData, "flight-depart-date"))
    \o (IF Truthy(Prop(flightData, "flight-return-date"))
        THEN " and returning on " \o Interp(Prop(flightData, "flight-return-date"))
        ELSE "")
    \o " for " \o Interp(Prop(flightData, "flight-travelers"))
    \o " traveler(s) in " \o Interp(Prop(flightData, "flight-cabin"))
    \o " class. Summarize the best 2-3 options."

PackPrompt(packData) ==
    "Generate a detailed packing list for a trip to " \o Interp(Prop(packData, "pack-destination"))
    \o " for " \o Interp(Prop(packData, "pack-duration"))
    \o " days, during the " \o Interp(Prop(packData, "pack-season"))
    \o ". Special activities include: " \o Interp(Prop(packData, "pack-activities"))
    \o ". Format the output as a Markdown list."

CurrencyPrompt(body) ==
    "What is the current exchange rate for " \o Interp(Prop(body, "amount"))
    \o " " \o Interp(Prop(body, "from")) \o " to " \o Interp(Prop(body, "to"))
    \o "? Just give the final converted number and the currency code."

ImagePrompt(body) ==
    "A beautiful, high-quality, professional photograph of: " \o Interp(Prop(body, "prompt"))
    \o ". Realistic, 16:9 aspect ratio."

BuildCall(apiUrl, payload) == [kind |-> "call", apiUrl |-> apiUrl, payload |-> payload]

BuildThrow(error) == [kind |-> "throw", error |-> error]

\* a plausible slip: the default branch without its `return`, so that the
\* handler goes on to fetch with the unassigned apiUrl and payload
BuildInvalidNoReturn == [kind |-> "call", apiUrl |-> Undefined, payload |-> Undefined]

BuildInvalid == [kind |-> "invalid"]

TextUrl(key) == ApiUrl(GeminiModel, "generateContent", key)

\* the switch: the URL and payload of the kind, a TypeError when the
\* template reads a field of a missing `data`, or the default branch
Build(t, body, key) ==
    CASE t = JStr("itinerary") ->
            IF IsNullish(Prop(body, "data"))
            THEN BuildThrow(TypeErrorReading(Interp(Prop(body, "data")), "cities"))
            ELSE BuildCall(TextUrl(key),
                           JObj(<<Contents(ItineraryPrompt(Prop(body, "data"))), GenerationConfig>>))
      [] t = JStr("groundedSearch") ->
            \* body.query is passed as it is, not interpolated
            BuildCall(TextUrl(key),
                      JObj(<<KV("contents", JArr(<<JObj(<<KV("parts",
                                JArr(<<JObj(<<KV("text", Prop(body, "query"))>>)>>))>>)>>)),
                             SearchTools>>))
      [] t = JStr("contextualQa") ->
            BuildCall(TextUrl(key),
                      JObj(<<Contents(QaPrompt(Prop(body, "context"), Prop(body, "question"))),
                             SearchTools>>))
      [] t = JStr("flights") ->
            IF IsNullish(Prop(body, "data"))
            THEN BuildThrow(TypeErrorReading(Interp(Prop(body, "data")), "flight-origin"))
            ELSE BuildCall(TextUrl(key),
                           JObj(<<Contents(FlightPrompt(Prop(body, "data"))), SearchTools>>))
      [] t = JStr("packingList") ->
            IF IsNullish(Prop(body, "data"))
            THEN BuildThrow(TypeErrorReading(Interp(Prop(body, "data")), "pack-destination"))
            ELSE BuildCall(TextUrl(key), JObj(<<Contents(PackPrompt(Prop(body, "data")))>>))
      [] t = JStr("currency") ->
            BuildCall(TextUrl(key), JObj(<<Contents(CurrencyPrompt(body)), SearchTools>>))
      [] t = JStr("generateImage") ->
            BuildCall(ApiUrl(ImagenModel, "predict", key),
                      JObj(<<KV("instances", JArr(<<JObj(<<KV("prompt", JStr(ImagePrompt(body)))>>)>>)),
                             KV("parameters", JObj(<<KV("sampleCount", JNum(1))>>))>>))
      [] OTHER -> BuildInvalid

(***************************************************************************)
(* The response normalizer (the code after `await response.json()`)        *)
(***************************************************************************)
Error(message) == [name |-> "Error", message |-> message]

SyntaxError == [name |-> "SyntaxError", message |-> "Unexpected token in JSON"]

\* { error: message }
ErrorBody(message) == JObj(<<KV("error", JStr(message))>>)

LogEntry(label, detail) == [label |-> label, detail |-> detail]

Send(status, json, entries) ==
    [kind |-> "send", status |-> status, json |-> json, log |-> entries]

Throw(error, entries) == [kind |-> "throw", error |-> error, log |-> entries]

MalformedItineraryMessage ==
    "The AI failed to generate a valid itinerary format. Please try again."

\* JSON.parse(result.candidates[0].content.parts[0].text): every step of
\* the chain throws a TypeError on a nullish base
StrictParse(result) ==
    LET candidates == Prop(result, "candidates") IN
    IF IsNullish(candidates)
    THEN [ok |-> FALSE, error |-> TypeErrorReading(Interp(candidates), "0")]
    ELSE LET c0 == Index(candidates, 0) IN
    IF IsNullish(c0)
    THEN [ok |-> FALSE, error |-> TypeErrorReading(Interp(c0), "content")]
    ELSE LET content == Prop(c0, "content") IN
    IF IsNullish(content)
    THEN [ok |-> FALSE, error |-> TypeErrorReading(Interp(content), "parts")]
    ELSE LET parts == Prop(content, "parts") IN
    IF IsNullish(parts)
    THEN [ok |-> FALSE, error |-> TypeErrorReading(Interp(parts), "0")]
    ELSE LET p0 == Index(parts, 0) IN
    IF IsNullish(p0)
    THEN [ok |-> FALSE, error |-> TypeErrorReading(Interp(p0), "text")]
    ELSE LET parsed == JSONparse(Prop(p0, "text")) IN
    IF parsed.ok THEN [ok |-> TRUE, val |-> parsed.val]
    ELSE [ok |-> FALSE, error |-> SyntaxError]

\* result.candidates[0]?.content?.parts[0]?.text: `?.` ends the chain on a
\* nullish base, the plain `[0]` after `candidates` and `parts` still throws
LenientText(result) ==
    LET candidates == Prop(result, "candidates") IN
    IF IsNullish(candidates)
    THEN [ok |-> FALSE, error |-> TypeErrorReading(Interp(candidates), "0")]
    ELSE LET c0 == Index(candidates, 0) IN
    IF IsNullish(c0) THEN [ok |-> TRUE, val |-> Undefined]
    ELSE LET content == Prop(c0, "content") IN
    IF IsNullish(content) THEN [ok |-> TRUE, val |-> Undefined]
    ELSE LET parts == Prop(content, "parts") IN
    IF IsNullish(parts)
    THEN [ok |-> FALSE, error |-> TypeErrorReading(Interp(parts), "0")]
    ELSE LET p0 == Index(parts, 0) IN
    IF IsNullish(p0) THEN [ok |-> TRUE, val |-> Undefined]
    ELSE [ok |-> TRUE, val |-> Prop(p0, "text")]

\* the catch (parseError) block of the itinerary branch
ItineraryCatch(result, parseError) ==
    LET first == LogEntry("Failed to parse itinerary JSON from model:", parseError)
        text == LenientText(result)
    IN IF ~text.ok THEN Throw(text.error, <<first>>)
       ELSE Send(500, ErrorBody(MalformedItineraryMessage),
                 <<first, LogEntry("Original text from model:", text.val)>>)

\* a plausible slip: `predictions` tested, its length not
NormalizeImageNoLengthCheck(result) ==
    LET predictions == Prop(result, "predictions") IN
    IF Truthy(predictions)
    THEN LET p0 == Index(predictions, 0) IN
         IF IsNullish(p0)
         THEN Throw(TypeErrorReading(Interp(p0), "bytesBase64Encoded"), <<>>)
         ELSE Send(200, JObj(<<KV("base64Image", Prop(p0, "bytesBase64Encoded"))>>), <<>>)
    ELSE Throw(Error("No image was generated."), <<>>)

NormalizeImage(result) ==
    LET predictions == Prop(result, "predictions") IN
    IF Truthy(predictions) /\ Length(predictions).k = "number" /\ Length(predictions).n > 0
    THEN LET p0 == Index(predictions, 0) IN
         IF IsNullish(p0)
         THEN Throw(TypeErrorReading(Interp(p0), "bytesBase64Encoded"), <<>>)
         ELSE Send(200, JObj(<<KV("base64Image", Prop(p0, "bytesBase64Encoded"))>>), <<>>)
    ELSE Throw(Error("No image was generated."), <<>>)

\* a plausible slip: the itinerary text checked but the raw result sent
NormalizeItineraryUnparsed(result) ==
    LET parsed == StrictParse(result) IN
    IF parsed.ok THEN Send(200, result, <<>>)
    ELSE ItineraryCatch(result, parsed.error)

NormalizeItinerary(result) ==
    LET parsed == StrictParse(result) IN
    IF parsed.ok THEN Send(200, parsed.val, <<>>)
    ELSE ItineraryCatch(result, parsed.error)

\* a plausible slip: only the candidates of the result sent on
NormalizePassthroughCandidates(result) ==
    Send(200, JObj(<<KV("candidates", Prop(result, "candidates"))>>), <<>>)

NormalizePassthrough(result) == Send(200, result, <<>>)

\* the if / else if / else on `type` after the upstream body was read
Normalize(t, result) ==
    IF t = JStr("generateImage") THEN NormalizeImage(result)
    ELSE IF t = JStr("itinerary") THEN NormalizeItinerary(result)
    ELSE NormalizePassthrough(result)

GenericUpstreamMessage == "Failed to fetch from API"

\* new Error(errorData.error?.message || 'Failed to fetch from API')
UpstreamError(errorData) ==
    IF IsNullish(errorData)
    THEN TypeErrorReading(Interp(errorData), "error")
    ELSE LET e == Prop(errorData, "error")
             m == IF IsNullish(e) THEN Undefined ELSE Prop(e, "message")
         IN IF Truthy(m) THEN Error(Interp(m)) ELSE Error(GenericUpstreamMessage)

\* the outer catch (error) block
OuterCatch(error, entries) ==
    Send(500, ErrorBody(error.message),
         entries \o <<LogEntry("Error in serverless function:", error)>>)

\* what the handler does once the upstream body is read (or is unreadable)
AfterJson(t, resp) ==
    IF resp.body.k = "notjson" THEN OuterCatch(SyntaxError, <<>>)
    ELSE IF ~resp.ok THEN OuterCatch(UpstreamError(resp.body), <<>>)
    ELSE LET n == Normalize(t, resp.body) IN
         IF n.kind = "throw" THEN OuterCatch(n.error, n.log) ELSE n

(***************************************************************************)
(* Requests the page sends, and others a client can send                   *)
(***************************************************************************)
Kinds == {"itinerary", "groundedSearch", "contextualQa", "flights",
          "packingList", "currency", "generateImage"}

Methods == {"POST", "GET", "PUT"}

\* process.env.GEMINI_API_KEY: unset, set to the empty string, or set
ApiKeys == {Undefined, JStr(""), JStr("AIza-key")}

ItineraryData ==
    JObj(<<KV("cities", JStr("Paris")), KV("country", JStr("France")),
           KV("duration", JNum(3)), KV("num-people", JNum(2)),
           KV("budget", JStr("Medium")), KV("trip-pace", JStr("Relaxed")),
           KV("accommodation-type", JStr("Hotel"))>>)

FlightData ==
    JObj(<<KV("flight-origin", JStr("MAA")), KV("flight-destination", JStr("CMB")),
           KV("flight-depart-date", JStr("2025-01-10")),
           KV("flight-travelers", JNum(2)), KV("flight-cabin", JStr("economy"))>>)

PackData ==
    JObj(<<KV("pack-destination", JStr("Kandy")), KV("pack-duration", JNum(5)),
           KV("pack-season", JStr("monsoon")), KV("pack-activities", JStr("hiking"))>>)

TypeOnly(t) == JObj(<<KV("type", JStr(t))>>)

WithData(t, data) == JObj(<<KV("type", JStr(t)), KV("data", data)>>)

\* req.body: missing (no body was sent), or a parsed JSON object
Bodies ==
    {Undefined, JObj(<<>>), JObj(<<KV("type", JNum(7))>>),
     JObj(<<KV("type", JStr("bogus")), KV("query", JStr("Colombo"))>>),
     JObj(<<KV("query", JStr("Colombo")), KV("type", JStr("groundedSearch"))>>),
     JObj(<<KV("type", JStr("contextualQa")), KV("context", JStr("Sigiriya")),
            KV("question", JStr("opening hours?"))>>),
     JObj(<<KV("type", JStr("currency")), KV("amount", JNum(100)),
            KV("from", JStr("USD")), KV("to", JStr("EUR"))>>),
     JObj(<<KV("type", JStr("generateImage")), KV("prompt", JStr("Galle Fort"))>>),
     WithData("itinerary", ItineraryData),
     WithData("itinerary", JObj(<<KV("staying-at", JStr("Hotel Lutetia"))>>)),
     WithData("itinerary", JNull),
     WithData("flights", FlightData),
     WithData("flights", JObj(FlightData.m \o <<KV("flight-return-date", JStr("2025-01-20"))>>)),
     WithData("packingList", PackData)}
    \cup {TypeOnly(t) : t \in Kinds}

(***************************************************************************)
(* What the upstream can answer                                            *)
(***************************************************************************)
\* longest `predictions` array the image endpoint returns
MaxPredictions == 2

\* a body that response.json() cannot read (an HTML error page, a cut stream)
NotJson == [k |-> "notjson"]

Images ==
    {JObj(<<KV("bytesBase64Encoded", JStr("iVBORw0KGgo=")), KV("mimeType", JStr("image/png"))>>),
     JObj(<<KV("mimeType", JStr("image/jpeg")), KV("bytesBase64Encoded", JStr("/9j/4AAQ"))>>)}

SeqsUpTo(S, n) == UNION {[1..m -> S] : m \in 0..n}

ImageBodies ==
    {JObj(<<KV("predictions", JArr(ps))>>) : ps \in SeqsUpTo(Images, MaxPredictions)}

\* lexemes of {"title":"X","days":[]}
TitleDaysText ==
    JText(<<P("{"), TStr("title"), P(":"), TStr("X"), P(","),
            TStr("days"), P(":"), P("["), P("]"), P("}")>>)

\* lexemes of {"title":"Y","numberOfPeople":2,"days":[{"day":1,"activities":[]},{"day":2}]}
TwoDaysText ==
    JText(<<P("{"), TStr("title"), P(":"), TStr("Y"), P(","),
            TStr("numberOfPeople"), P(":"), TNum(2), P(","),
            TStr("days"), P(":"), P("["),
            P("{"), TStr("day"), P(":"), TNum(1), P(","),
            TStr("activities"), P(":"), P("["), P("]"), P("}"), P(","),
            P("{"), TStr("day"), P(":"), TNum(2), P("}"),
            P("]"), P("}")>>)

ModelTexts ==
    {TitleDaysText, TwoDaysText,
     \* valid JSON that is no itinerary object
     JText(<<P("["), TNum(1), P(","), P("null"), P("]")>>),
     JText(<<TStr("sorry")>>),
     \* not JSON: prose, a cut-off object, a trailing comma, a fenced block, nothing
     JText(<<TWord("not"), TWord("json")>>),
     JText(<<P("{"), TStr("title"), P(":"), TStr("X"), P(",")>>),
     JText(<<P("{"), TStr("title"), P(":"), TStr("X"), P(","), P("}")>>),
     JText(<<TWord("json-fence"), P("{"), P("}"), TWord("fence")>>),
     JText(<<>>)}

Candidate(parts) ==
    JObj(<<KV("content", JObj(<<KV("parts", JArr(parts)), KV("role", JStr("model"))>>)),
           KV("finishReason", JStr("STOP"))>>)

TextBodies ==
    {JObj(<<KV("candidates", JArr(<<Candidate(<<JObj(<<KV("text", t)>>)>>)>>))>>) : t \in ModelTexts}
    \cup
    {\* a blocked prompt: no candidates at all
     JObj(<<KV("promptFeedback", JObj(<<KV("blockReason", JStr("SAFETY"))>>))>>),
     JObj(<<KV("candidates", JArr(<<>>))>>),
     \* a candidate stopped by the safety filter: no content
     JObj(<<KV("candidates", JArr(<<JObj(<<KV("finishReason", JStr("SAFETY"))>>)>>))>>),
     \* a candidate cut at the token limit: content without parts
     JObj(<<KV("candidates", JArr(<<JObj(<<KV("content", JObj(<<KV("role", JStr("model"))>>)),
                                           KV("finishReason", JStr("MAX_TOKENS"))>>)>>))>>),
     JObj(<<KV("candidates", JArr(<<Candidate(<<>>)>>))>>),
     \* a part that carries no text
     JObj(<<KV("candidates", JArr(<<Candidate(<<JObj(<<KV("thought", JBool(TRUE))>>)>>)>>))>>),
     JObj(<<KV("candidates", JArr(<<Candidate(<<JObj(<<KV("text", TitleDaysText)>>)>>),
                                    Candidate(<<JObj(<<KV("text", TwoDaysText)>>)>>)>>))>>)}

ErrorBodies ==
    {JObj(<<KV("error", JObj(<<KV("code", JNum(429)), KV("message", JStr("Quota exceeded")),
                               KV("status", JStr("RESOURCE_EXHAUSTED"))>>))>>),
     JObj(<<KV("error", JObj(<<KV("code", JNum(400)), KV("message", JStr("API key not valid"))>>))>>),
     JObj(<<KV("error", JObj(<<KV("code", JNum(500)), KV("message", JStr(""))>>))>>),
     JObj(<<KV("error", JObj(<<KV("code", JNum(503))>>))>>),
     JObj(<<KV("error", JStr("bad gateway"))>>),
     JObj(<<>>)}

\* the upstream body is unreadable, or is a JSON object
UpstreamBodies == {NotJson} \cup ImageBodies \cup TextBodies \cup ErrorBodies

\* fetch rejects (a transport error), or resolves with a response
FetchOutcomes ==
    {[kind |-> "reject", error |-> [name |-> "TypeError", message |-> "fetch failed"]]}
    \cup {[kind |-> "response", ok |-> TRUE, status |-> 200, body |-> b] : b \in UpstreamBodies}
    \cup {[kind |-> "response", ok |-> FALSE, status |-> st, body |-> b] :
            st \in {400, 429, 503}, b \in UpstreamBodies}

(***************************************************************************)
(* The handler                                                             *)
(***************************************************************************)
None == [k |-> "none"]

(***************************************************************************)
(* The service worker (sw.js)                                              *)
(***************************************************************************)
CACHE_NAME == "travel-hub-cache-v2"

\* a cache left by an earlier version of the worker
OldCacheName == "travel-hub-cache-v1"

\* most cache.put calls that are in flight at once
MaxPending == 1

Url(scheme, host, path, query) ==
    [scheme |-> scheme, host |-> host, path |-> path, query |-> query]

SelfHost == "planatrip.app"

Local(path) == Url("https", SelfHost, path, "")

\* url.includes(needle), for a needle that is a whole host, path or query
Includes(url, needle) == needle \in {url.host, url.path, url.query}

\* url.startsWith('chrome-extension://')
IsExtensionUrl(url) == url.scheme = "chrome-extension"

PRECACHE_ASSETS ==
    <<Local("/"), Local("/index.html"),
      Url("https", "cdn.tailwindcss.com", "", ""),
      Url("https", "cdn.jsdelivr.net", "/npm/marked/marked.min.js", ""),
      Url("https", "cdn.jsdelivr.net", "/npm/@supabase/supabase-js@2", ""),
      Url("https", "fonts.googleapis.com", "/css2", "family=Inter:wght@100..900&display=swap")>>

\* the URLs the pages of the origin request
RequestUrls ==
    {Local("/"), Local("/manifest.json"),
     Url("https", "cdn.tailwindcss.com", "", ""),
     Url("https", "cdn.jsdelivr.net", "/npm/chart.js", ""),
     Url("https", "fonts.gstatic.com", "/s/inter/v13/inter.woff2", ""),
     Local("/api/proxy"),
     Url("https", SelfHost, "/api/proxy", "fonts.gstatic.com"),
     Url("chrome-extension", "abcdef", "/inject.js", "")}

Requests == [method : {"GET", "POST"}, url : RequestUrls]

\* a Response: its status, its type and its url
Resp(status, ty, url) == [status |-> status, type |-> ty, url |-> url]

\* what the network can answer to a request for url: a same-origin answer
\* is `basic`, a cross-origin one is `cors` or opaque (status 0)
NetworkResponses(url) ==
    IF url.host = SelfHost
    THEN {Resp(st, "basic", url) : st \in {200, 404}}
    ELSE {Resp(st, "cors", url) : st \in {200, 404}} \cup {Resp(0, "opaque", url)}

\* fetch(request): a response, or a rejection (offline)
NetworkOutcomes(url) ==
    {[kind |-> "reject"]} \cup {[kind |-> "response", response |-> r] : r \in NetworkResponses(url)}

CacheEntry(url, resp, by) == [url |-> url, response |-> resp, by |-> by]

\* cache.put(request, response) on the entries of one cache
PutEntry(entries, url, resp, by) ==
    {e \in entries : e.url # url} \cup {CacheEntry(url, resp, by)}

\* cache.match(request) on the entries of one cache
MatchIn(entries, url) ==
    IF \E e \in entries : e.url = url
    THEN (CHOOSE e \in entries : e.url = url).response
    ELSE None

\* caches.match(request): the caches in the order of their creation
MatchAny(cs, url) ==
    IF OldCacheName \in DOMAIN cs /\ MatchIn(cs[OldCacheName], url) # None
    THEN MatchIn(cs[OldCacheName], url)
    ELSE IF CACHE_NAME \in DOMAIN cs THEN MatchIn(cs[CACHE_NAME], url)
    ELSE None

\* caches.open(CACHE_NAME) creates the cache when there is none
Opened(cs) ==
    IF CACHE_NAME \in DOMAIN cs THEN cs
    ELSE [n \in DOMAIN cs \cup {CACHE_NAME} |-> IF n = CACHE_NAME THEN {} ELSE cs[n]]

\* a plausible slip: the type of the response not looked at
ValidResponseStatusOnly(resp) == resp.status = 200

\* the negation of `!networkResponse || status !== 200 || type !== 'basic'`
ValidResponse(resp) == resp.status = 200 /\ resp.type = "basic"

\* event.request.url.includes('/api/proxy')
IsProxyRequest(url) == Includes(url, "/api/proxy")

\* event.request.url.includes('fonts.gstatic.com')
IsFontRequest(url) == Includes(url, "fonts.gstatic.com")

Deliver(request, handled, source, resp, fetches, matched) ==
    [request |-> request, handled |-> handled, source |-> source,
     response |-> resp, fetches |-> fetches, matched |-> matched]

Put(url, resp, by) == [url |-> url, response |-> resp, by |-> by]

\* the page gets the network's answer, or a network error
FromNetwork(request, handled, net, matched) ==
    IF net.kind = "response"
    THEN Deliver(request, handled, "network", net.response, 1, matched)
    ELSE Deliver(request, handled, "error", None, 1, matched)

\* the stale-while-revalidate branch for the font files
FontBranch(request, net, cs) ==
    LET cached == MatchIn(Opened(cs)[CACHE_NAME], request.url) IN
    [puts |-> IF net.kind = "response" THEN {Put(request.url, net.response, "font")} ELSE {},
     out |-> IF cached # None
             THEN Deliver(request, TRUE, "cache", cached, 1, cached)
             ELSE FromNetwork(request, TRUE, net, None)]

\* the cache-first branch for all other GET requests
CacheFirstBranch(request, net, cs) ==
    LET matched == MatchAny(cs, request.url) IN
    IF matched # None
    THEN [puts |-> {}, out |-> Deliver(request, TRUE, "cache", matched, 0, matched)]
    ELSE IF net.kind = "reject"
    \* the catch logs and returns nothing: the page gets a network error
    THEN [puts |-> {}, out |-> Deliver(request, TRUE, "error", None, 1, None)]
    ELSE IF ~ValidResponse(net.response) /\ ~IsExtensionUrl(net.response.url)
    THEN [puts |-> {}, out |-> FromNetwork(request, TRUE, net, None)]
    ELSE [puts |-> {Put(request.url, net.response, "cacheFirst")},
          out |-> FromNetwork(request, TRUE, net, None)]

\* the fetch listener
OnFetch(request, net, cs) ==
    IF request.method # "GET"
    \* no respondWith: the browser fetches as if there were no worker
    THEN [puts |-> {}, out |-> FromNetwork(request, FALSE, net, None)]
    ELSE IF IsFontRequest(request.url) THEN FontBranch(request, net, cs)
    ELSE IF IsProxyRequest(request.url)
    THEN [puts |-> {}, out |-> FromNetwork(request, TRUE, net, None)]
    ELSE CacheFirstBranch(request, net, cs)

\* entries an earlier version of the worker may have left
OldEntries == {CacheEntry(Local("/"), Resp(200, "basic", Local("/")), "old")}

SWInit ==
    /\ swState = "parsed"
    /\ caches \in {<<>>, [n \in {OldCacheName} |-> OldEntries]}
    /\ pendingPuts = {}
    /\ delivered = None

\* the install event: cache.addAll(PRECACHE_ASSETS) stores all the assets
\* when every one was fetched with an ok status and stores none otherwise;
\* then skipWaiting()
Install(allOk) ==
    /\ swState = "parsed"
    /\ IF allOk
       THEN /\ caches' = [Opened(caches) EXCEPT ![CACHE_NAME] =
                    @ \cup {CacheEntry(PRECACHE_ASSETS[i],
                                   Resp(200, IF PRECACHE_ASSETS[i].host = SelfHost
                                             THEN "basic" ELSE "cors", PRECACHE_ASSETS[i]),
                                   "install") : i \in DOMAIN PRECACHE_ASSETS}]
            /\ swState' = "installed"
       ELSE /\ caches' = Opened(caches)
            /\ swState' = "redundant"
    /\ UNCHANGED <<pendingPuts, delivered>>
    /\ UNCHANGED vars

\* the activate event: every cache but CACHE_NAME is deleted, clients.claim()
Activate ==
    /\ swState = "installed"
    /\ caches' = [n \in DOMAIN caches \cap {CACHE_NAME} |-> caches[n]]
    /\ swState' = "activated"
    /\ UNCHANGED <<pendingPuts, delivered>>
    /\ UNCHANGED vars

\* a fetch event of a controlled page, with what the network answers
FetchEvent(request, net) ==
    /\ swState = "activated"
    /\ LET r == OnFetch(request, net, caches) IN
       /\ Cardinality(pendingPuts \cup r.puts) <= MaxPending
       /\ pendingPuts' = pendingPuts \cup r.puts
       /\ delivered' = r.out
    /\ UNCHANGED <<swState, caches>>
    /\ UNCHANGED vars

\* caches.open(CACHE_NAME).then(cache => cache.put(...)) settles: the Cache
\* API rejects a request whose scheme is not http or https, and stores the
\* response otherwise
PutSettles(p) ==
    /\ p \in pendingPuts
    /\ pendingPuts' = pendingPuts \ {p}
    /\ caches' = IF p.url.scheme \in {"http", "https"}
                 THEN [Opened(caches) EXCEPT ![CACHE_NAME] =
                            PutEntry(@, p.url, p.response, p.by)]
                 ELSE Opened(caches)
    /\ UNCHANGED <<swState, delivered>>
    /\ UNCHANGED vars

SWNext ==
    \/ \E allOk \in BOOLEAN : Install(allOk)
    \/ Activate
    \/ \E request \in Requests : \E net \in NetworkOutcomes(request.url) : FetchEvent(request, net)
    \/ \E p \in pendingPuts : PutSettles(p)

Init ==
    /\ pc = "idle"
    /\ req = None
    /\ env = None
    /\ type = Undefined
    /\ call = None
    /\ calls = 0
    /\ response = None
    /\ sent = <<>>
    /\ log = <<>>
    /\ thrown = None
    /\ SWInit

\* res.status(status).json(json)
Respond(status, json) == <<[status |-> status, json |-> json]>>

\* a plausible slip: PUT let through along with POST
MethodAllowedOrPut(method) == method \in {"POST", "PUT"}

\* req.method !== 'POST' is the 405 branch
MethodAllowed(method) == method = "POST"

\* a plausible slip: only an unset variable counts, `API_KEY === undefined`
KeyMissingOnlyUnset(key) == key = Undefined

\* !API_KEY
KeyMissing(key) == ~Truthy(key)

\* what the synchronous head of the handler does, up to the first await
Entry(method, key, body) ==
    IF ~MethodAllowed(method)
    THEN [kind |-> "send", status |-> 405, json |-> ErrorBody("Method Not Allowed")]
    ELSE IF KeyMissing(key)
    THEN [kind |-> "send", status |-> 500,
          json |-> ErrorBody("API key is not configured on the server.")]
    ELSE IF IsNullish(body)
    THEN [kind |-> "throw", error |->
            [name |-> "TypeError",
             message |-> "Cannot destructure property 'type' of 'req.body' as it is "
                         \o Interp(body) \o "."]]
    ELSE LET b == Build(Prop(body, "type"), JObj(Without(body.m, "type")), Interp(key)) IN
         CASE b.kind = "invalid" ->
                [kind |-> "send", status |-> 400, json |-> ErrorBody("Invalid API request type")]
           [] b.kind = "throw" -> [kind |-> "throw", error |-> b.error]
           [] b.kind = "call" ->
                [kind |-> "fetch",
                 call |-> [url |-> b.apiUrl, method |-> "POST",
                           contentType |-> "application/json", body |-> b.payload]]

\* the runtime calls handler(req, res) with a fresh res; the handler runs to
\* its first await (the fetch), to a response, or to an exception
Invoke(method, key, body) ==
    /\ pc \in {"idle", "done", "rejected"}
    /\ req' = [method |-> method, body |-> body]
    /\ env' = [GEMINI_API_KEY |-> key]
    /\ response' = None
    /\ log' = <<>>
    /\ LET e == Entry(method, key, body) IN
       /\ type' = IF MethodAllowed(method) /\ ~KeyMissing(key) /\ ~IsNullish(body)
                  THEN Prop(body, "type") ELSE Undefined
       /\ sent' = IF e.kind = "send" THEN Respond(e.status, e.json) ELSE <<>>
       /\ thrown' = IF e.kind = "throw" THEN e.error ELSE None
       /\ call' = IF e.kind = "fetch" THEN e.call ELSE None
       /\ calls' = IF e.kind = "fetch" THEN 1 ELSE 0
       /\ pc' = CASE e.kind = "send" -> "done"
                  [] e.kind = "throw" -> "rejected"
                  [] e.kind = "fetch" -> "awaitFetch"
    /\ UNCHANGED swvars

\* the promise of fetch settles; on a response the handler goes on to
\* await response.json(), on a rejection to the outer catch
FetchSettles(outcome) ==
    /\ pc = "awaitFetch"
    /\ IF outcome.kind = "reject"
       THEN LET c == OuterCatch(outcome.error, <<>>) IN
            /\ sent' = sent \o Respond(c.status, c.json)
            /\ log' = log \o c.log
            /\ pc' = "done"
            /\ UNCHANGED response
       ELSE /\ response' = [ok |-> outcome.ok, status |-> outcome.status, body |-> outcome.body]
            /\ pc' = "awaitJson"
            /\ UNCHANGED <<sent, log>>
    /\ UNCHANGED <<req, env, type, call, calls, thrown>>
    /\ UNCHANGED swvars

\* the promise of response.json() settles and the handler runs to its end
JsonSettles ==
    /\ pc = "awaitJson"
    /\ LET r == AfterJson(type, response) IN
       /\ sent' = sent \o Respond(r.status, r.json)
       /\ log' = log \o r.log
    /\ pc' = "done"
    /\ UNCHANGED <<req, env, type, call, calls, response, thrown>>
    /\ UNCHANGED swvars

Next ==
    \/ \E method \in Methods, key \in ApiKeys, body \in Bodies : Invoke(method, key, body)
    \/ \E outcome \in FetchOutcomes : FetchSettles(outcome)
    \/ JsonSettles

Spec == Init /\ [][Next]_<<vars, swvars>>

\* the service worker on its own
SpecSW == Init /\ [][SWNext]_<<vars, swvars>>

(***************************************************************************)
(* Properties                                                              *)
(***************************************************************************)
\* the handler was invoked (and, Invoke being one step, ran to its first
\* await or to its end)
Invoked == req # None

\* the `type` the request carries; a missing body carries none
RequestType == IF IsNullish(req.body) THEN Undefined ELSE Prop(req.body, "type")

IsKind(t) == t.k = "string" /\ t.s \in Kinds

KeyConfigured == Truthy(env.GEMINI_API_KEY)

\* exactly one response was sent, with this status and an `error` string
SentError(status) ==
    /\ Len(sent) = 1
    /\ sent[1].status = status
    /\ sent[1].json.k = "object"
    /\ Prop(sent[1].json, "error").k = "string"

SentExactly(status, json) == sent = <<[status |-> status, json |-> json]>>

\* the upstream answered with a success status and a readable JSON body,
\* and the handler has finished with it
UpstreamSucceeded ==
    /\ pc = "done"
    /\ response # None
    /\ response.ok
    /\ response.body.k # "notjson"

\* C1: a POST with the key configured whose body carries a `type` that is
\* no recognized kind (absent, not a string, or an unknown string) gets
\* exactly one response, 400 with an `error` message, and no upstream call
\* is issued in that invocation.
C1_UnrecognizedTypeRejected ==
    (Invoked /\ req.method = "POST" /\ KeyConfigured
        /\ ~IsNullish(req.body) /\ ~IsKind(RequestType))
    => (SentError(400) /\ calls = 0 /\ call = None /\ pc = "done")

C1_Witness ==
    /\ Invoked /\ req.method = "POST" /\ KeyConfigured
    /\ RequestType = JStr("bogus")
    /\ SentError(400) /\ calls = 0

\* C2: a POST when the API key is not configured (unset or empty) gets 500
\* with the fixed configuration message, whatever the body and its `type`,
\* with no payload built and no upstream call.
C2_MissingKeyRejected ==
    (Invoked /\ req.method = "POST" /\ ~KeyConfigured)
    => (SentExactly(500, ErrorBody("API key is not configured on the server."))
        /\ calls = 0 /\ call = None /\ pc = "done")

C2_Witness ==
    /\ Invoked /\ req.method = "POST" /\ ~KeyConfigured
    /\ RequestType = JStr("itinerary")
    /\ SentExactly(500, ErrorBody("API key is not configured on the server."))

\* C3: a request whose method is not POST gets 405 with an `error` message
\* and no upstream call, whatever the body, the `type` and the key.
C3_NonPostRejected ==
    (Invoked /\ req.method # "POST")
    => (SentError(405) /\ calls = 0 /\ call = None /\ pc = "done")

C3_Witness ==
    /\ Invoked /\ req.method = "PUT" /\ KeyConfigured
    /\ RequestType = JStr("currency")
    /\ SentError(405) /\ calls = 0

\* the message the upstream error body carries, if it carries one
SuppliedMessage(body) ==
    IF body.k = "object" /\ Prop(body, "error").k = "object"
       /\ Prop(Prop(body, "error"), "message").k = "string"
       /\ Prop(Prop(body, "error"), "message").s # ""
    THEN Prop(Prop(body, "error"), "message").s
    ELSE GenericUpstreamMessage

\* C4 (as claimed): after a non-success upstream status the handler sends
\* 500 whose `error` is the upstream-supplied message when the error body
\* carries one and the generic message otherwise, for every error body.
C4_UpstreamErrorMessage ==
    (pc = "done" /\ response # None /\ ~response.ok)
    => SentExactly(500, ErrorBody(SuppliedMessage(response.body)))

\* the text at candidates[0].content.parts[0].text, where there is one
ModelText(body) ==
    LET c == Prop(body, "candidates")
        c0 == IF IsNullish(c) THEN Undefined ELSE Index(c, 0)
        content == IF IsNullish(c0) THEN Undefined ELSE Prop(c0, "content")
        parts == IF IsNullish(content) THEN Undefined ELSE Prop(content, "parts")
        p0 == IF IsNullish(parts) THEN Undefined ELSE Index(parts, 0)
    IN IF IsNullish(p0) THEN Undefined ELSE Prop(p0, "text")

ItinerarySucceeded == UpstreamSucceeded /\ type = JStr("itinerary")

\* C5 (as claimed): for an itinerary whose upstream call succeeds, whenever
\* the model text cannot be obtained and parsed as JSON the handler sends
\* 500 with the fixed malformed-itinerary message, and nothing escapes.
C5_MalformedItinerary ==
    (ItinerarySucceeded /\ ~JSONparse(ModelText(response.body)).ok)
    => (SentExactly(500, ErrorBody(MalformedItineraryMessage)) /\ thrown = None)

ImageSucceeded == UpstreamSucceeded /\ type = JStr("generateImage")

NonEmptyPredictions(body) ==
    /\ Prop(body, "predictions").k = "array"
    /\ Len(Prop(body, "predictions").a) > 0

\* C6: for a generateImage whose upstream call succeeds, a non-empty
\* `predictions` gives 200 with {base64Image: predictions[0].bytesBase64Encoded},
\* a string, and no other member; an empty or absent `predictions` gives
\* 500 with "No image was generated."
C6_ImageNormalized ==
    ImageSucceeded =>
        IF NonEmptyPredictions(response.body)
        THEN /\ SentExactly(200, JObj(<<KV("base64Image",
                    Prop(Prop(response.body, "predictions").a[1], "bytesBase64Encoded"))>>))
             /\ Prop(sent[1].json, "base64Image").k = "string"
        ELSE SentExactly(500, ErrorBody("No image was generated."))

C6_Witness ==
    /\ ImageSucceeded
    /\ NonEmptyPredictions(response.body)
    /\ Len(Prop(response.body, "predictions").a) = 2
    /\ SentExactly(200, JObj(<<KV("base64Image", JStr("/9j/4AAQ"))>>))

\* C7: for an itinerary whose upstream call succeeds and whose model text
\* is valid JSON, the handler sends 200 with the parsed value of that text
\* and nothing else; the text {"title":"X","days":[]} gives {title:"X", days:[]}.
C7_ItineraryParsed ==
    (ItinerarySucceeded /\ JSONparse(ModelText(response.body)).ok)
    => /\ SentExactly(200, JSONparse(ModelText(response.body)).val)
       /\ (ModelText(response.body) = TitleDaysText
           => sent[1].json = JObj(<<KV("title", JStr("X")), KV("days", JArr(<<>>))>>))

C7_Witness ==
    /\ ItinerarySucceeded
    /\ ModelText(response.body) = TitleDaysText
    /\ SentExactly(200, JObj(<<KV("title", JStr("X")), KV("days", JArr(<<>>))>>))

PassthroughKinds == Kinds \ {"itinerary", "generateImage"}

\* C8: for groundedSearch, contextualQa, flights, packingList and currency,
\* when the upstream call succeeds the handler sends 200 with the upstream
\* JSON unchanged, whatever its shape.
C8_Passthrough ==
    (UpstreamSucceeded /\ IsKind(type) /\ type.s \in PassthroughKinds)
    => SentExactly(200, response.body)

C8_Witness ==
    /\ UpstreamSucceeded /\ type = JStr("flights")
    /\ response.body \in TextBodies
    /\ ModelText(response.body) = JText(<<TWord("not"), TWord("json")>>)
    /\ SentExactly(200, response.body)

HasMember(o, key) == o.k = "object" /\ \E i \in DOMAIN o.m : o.m[i].key = key

\* C9: an upstream call is issued only for one of the seven kinds, and its
\* URL and body match the kind: the predict action of the image model with
\* an {instances, parameters} body for generateImage, the generateContent
\* action with a {contents, ...} body for the six others; and every kind
\* has a request for which the call is issued.
C9_EndpointMatchesKind ==
    /\ call # None =>
        /\ IsKind(type)
        /\ call.method = "POST"
        /\ IF type.s = "generateImage"
           THEN /\ call.url.action = "predict" /\ call.url.model = ImagenModel
                /\ HasMember(call.body, "instances") /\ HasMember(call.body, "parameters")
                /\ ~HasMember(call.body, "contents")
           ELSE /\ call.url.action = "generateContent" /\ call.url.model = GeminiModel
                /\ HasMember(call.body, "contents")
                /\ ~HasMember(call.body, "instances") /\ ~HasMember(call.body, "parameters")
    /\ \A kind \in Kinds : \E body \in Bodies \ {Undefined} :
        /\ Prop(body, "type") = JStr(kind)
        /\ Build(JStr(kind), JObj(Without(body.m, "type")), "AIza-key").kind = "call"

C9_Witness ==
    /\ call # None /\ type = JStr("generateImage")
    /\ call.url.action = "predict"
    /\ HasMember(call.body, "instances")

\* the upstream call failed: a transport error, a non-success status, or a
\* body that cannot be read
UpstreamFailed ==
    /\ pc = "done" /\ calls > 0
    /\ \/ response = None
       \/ ~response.ok
       \/ response.body.k = "notjson"

\* C10 (as claimed): an invocation issues at most one upstream POST, and
\* exactly one when the method, configuration and type checks all pass;
\* after an upstream failure the caller gets a 500 in that invocation.
C10_SingleUpstreamCall ==
    /\ calls <= 1
    /\ (Invoked /\ req.method = "POST" /\ KeyConfigured /\ IsKind(RequestType)) => calls = 1
    /\ UpstreamFailed => (SentError(500) /\ calls = 1)

\* the invocation is over: the handler returned or an exception escaped it
Ended == pc \in {"done", "rejected"}

\* C11 (as claimed): every invocation, for every request (a missing body
\* included) and every upstream behaviour, ends having sent exactly one
\* response, 200 or an error status of 400, 405, 500 with an `error`
\* message; a response is never sent twice and never left unsent.
C11_ExactlyOneResponse ==
    /\ Len(sent) <= 1
    /\ Ended =>
        /\ Len(sent) = 1
        /\ \/ sent[1].status = 200
           \/ \E status \in {400, 405, 500} : SentError(status)

\* messages of the exceptions raised inside the handler: the SyntaxError of
\* response.json() and JSON.parse, the TypeError of a read on a nullish value
InternalExceptionMessages ==
    {SyntaxError.message}
    \cup {TypeErrorReading(of, key).message :
            of \in {"undefined", "null"},
            key \in {"0", "content", "parts", "text", "error", "bytesBase64Encoded"}}

\* the raw model text of the upstream result, as a value
RawModelText == IF response = None \/ response.body.k = "notjson"
                THEN Undefined ELSE ModelText(response.body)

\* C12 (as claimed): on every failure path the `error` sent to the caller
\* is neither the raw model text nor the message of a parse or other
\* internal exception; such detail goes to the server-side log only.
C12_NoDiagnosticDetailToClient ==
    \A i \in DOMAIN sent :
        (sent[i].status # 200) =>
            /\ Prop(sent[i].json, "error") # RawModelText \/ RawModelText = Undefined
            /\ Prop(sent[i].json, "error").s \notin InternalExceptionMessages

\* every entry of every cache of the origin
AllEntries == UNION {caches[n] : n \in DOMAIN caches}

\* C13 (as claimed): a request whose URL contains /api/proxy, whatever its
\* method, is answered from the network, is never answered from the cache
\* and is never written into the cache, in any sequence of install,
\* activate and fetch events.
C13_ProxyNetworkOnly ==
    /\ (delivered # None /\ IsProxyRequest(delivered.request.url))
        => (delivered.source # "cache" /\ delivered.fetches = 1)
    /\ \A e \in AllEntries : ~IsProxyRequest(e.url)
    /\ \A p \in pendingPuts : ~IsProxyRequest(p.url)

\* a GET that is neither a font-file request nor a proxy request
IsCacheFirstRequest(request) ==
    /\ request.method = "GET"
    /\ ~IsFontRequest(request.url)
    /\ ~IsProxyRequest(request.url)

\* status 200 and type `basic`, as the claim words it
Status200Basic(resp) == resp.status = 200 /\ resp.type = "basic"

\* C14: a GET that is neither a font-file nor a proxy request is answered
\* from the cache, with no network fetch, when the cache holds a match; on
\* a miss the answer of the network goes to the page, and what this branch
\* writes (or is about to write) into the cache under an http(s) request is
\* a response of status 200 and type `basic` only, so that no invalid
\* response is ever stored.
C14_CacheFirst ==
    /\ (delivered # None /\ IsCacheFirstRequest(delivered.request)) =>
        IF delivered.matched # None
        THEN /\ delivered.source = "cache"
             /\ delivered.response = delivered.matched
             /\ delivered.fetches = 0
        ELSE /\ delivered.fetches = 1
             /\ delivered.source \in {"network", "error"}
             /\ delivered.source = "network" =>
                    delivered.response \in NetworkResponses(delivered.request.url)
    /\ \A e \in AllEntries : e.by = "cacheFirst" => Status200Basic(e.response)
    /\ \A p \in pendingPuts :
        (p.by = "cacheFirst" /\ ~Status200Basic(p.response)) => IsExtensionUrl(p.url)

\* a miss answered by the network with a valid response, which is then stored
C14_Witness ==
    /\ delivered # None
    /\ delivered.request = [method |-> "GET", url |-> Local("/manifest.json")]
    /\ delivered.matched = None
    /\ delivered.source = "network"
    /\ Status200Basic(delivered.response)
    /\ CACHE_NAME \in DOMAIN caches
    /\ CacheEntry(Local("/manifest.json"), delivered.response, "cacheFirst") \in caches[CACHE_NAME]

====
